---- MODULE Spec2Model ----
(***************************************************************************)
(* A model of spellmaker.SpellMaker: the manifest Reader                   *)
(* (get_libraries_from_requirements), the term Collector (process_library),*)
(* the loop of generate_spell_dict, the Writer (write_to_file) and their   *)
(* composition create_spell_dict.                                          *)
(*                                                                         *)
(* A Python str is a sequence of one-character strings, so that split,     *)
(* startswith, the "in" test and the line structure of a file are computed *)
(* and not assumed.  What the run cannot decide by itself is chosen by the *)
(* environment: whether the manifest exists, what __import__ does with a   *)
(* name, what getattr does with a member, the order of list(set(...)), and *)
(* whether the destination directory exists.                               *)
(***************************************************************************)
EXTENDS Integers, Sequences, FiniteSets, TLC

VARIABLES
    manifest,    \* the file at requirements_path: NoFile, Unreadable or its text
    outFile,     \* the file at output_path: NoFile or its text
    pc,          \* "read", "collect", "done" or "crashed"
    libraries,   \* generate_spell_dict: libraries
    idx,         \* generate_spell_dict: position of the for loop in libraries
    all_terms,   \* generate_spell_dict: all_terms
    stdout,      \* what print has written, one record per call
    raised,      \* "none", or the call whose exception left create_spell_dict
    outFile0,    \* history: outFile when the run started
    outcomes,    \* history: what __import__ did for each package processed
    results,     \* history: how each process_library call ended
    written      \* history: the argument of each write_to_file call

vars == <<manifest, outFile, pc, libraries, idx, all_terms, stdout,
          raised, outFile0, outcomes, results, written>>

(***************************************************************************)
(* Bounds.                                                                 *)
(***************************************************************************)
\* At most this many packages of one manifest are installed.
MaxLoaded == 2

(***************************************************************************)
(* Text.                                                                   *)
(***************************************************************************)
\* A path: no file there, a file that open() cannot read, or a text file
NoFile == [state |-> "missing"]
Unreadable == [state |-> "unreadable"]
File(text) == [state |-> "file", text |-> text]

NL == <<"\n">>
SP == <<" ">>
Hash == <<"#">>
Underscore == <<"_">>
EqEq == <<"=", "=">>

\* str.startswith
StartsWith(s, p) == Len(s) >= Len(p) /\ SubSeq(s, 1, Len(p)) = p

\* str.find, 1-based; 0 when p does not occur in s
RECURSIVE FindFrom(_, _, _)
FindFrom(s, p, i) ==
    IF i + Len(p) - 1 > Len(s) THEN 0
    ELSE IF SubSeq(s, i, i + Len(p) - 1) = p THEN i
    ELSE FindFrom(s, p, i + 1)

\* p in s
Contains(s, p) == FindFrom(s, p, 1) # 0

\* str.split(sep), sep not empty
RECURSIVE Split(_, _)
Split(s, sep) ==
    LET i == FindFrom(s, sep, 1)
    IN  IF i = 0 THEN <<s>>
        ELSE <<SubSeq(s, 1, i - 1)>> \o Split(SubSeq(s, i + Len(sep), Len(s)), sep)

\* Iterating a text file: each line keeps its "\n"; a last line without one
\* is yielded as it is, and an empty remainder yields nothing.
RECURSIVE FileLines(_)
FileLines(text) ==
    LET i == FindFrom(text, NL, 1)
    IN  IF text = <<>> THEN <<>>
        ELSE IF i = 0 THEN <<text>>
        ELSE <<SubSeq(text, 1, i)>> \o FileLines(SubSeq(text, i + 1, Len(text)))

\* str.splitlines of the text read back: no line keeps its "\n", and a final
\* "\n" opens no further line.
RECURSIVE SplitLines(_)
SplitLines(text) ==
    LET i == FindFrom(text, NL, 1)
    IN  IF text = <<>> THEN <<>>
        ELSE IF i = 0 THEN <<text>>
        ELSE <<SubSeq(text, 1, i - 1)>> \o SplitLines(SubSeq(text, i + 1, Len(text)))

ToSet(s) == {s[i] : i \in DOMAIN s}

\* [x for x in names if not x.startswith("_")]
Public(names) == SelectSeq(names, LAMBDA x : ~StartsWith(x, Underscore))

\* list(set(...)): the elements of S once each, in an order Python does not fix
Orderings(S) ==
    {f \in [1..Cardinality(S) -> S] : \A i, j \in DOMAIN f : i # j => f[i] # f[j]}

(***************************************************************************)
(* The manifests of the tests and of the docstring.                        *)
(***************************************************************************)
numpy == <<"n", "u", "m", "p", "y">>
pandas == <<"p", "a", "n", "d", "a", "s">>
black == <<"b", "l", "a", "c", "k">>
mylib == <<"m", "y", "l", "i", "b">>
Indent == <<" ", " ", " ", " ">>
NumpyPin == numpy \o EqEq \o <<"1", ".", "1", "9", ".", "2">>
PandasPin == pandas \o EqEq \o <<"1", ".", "2", ".", "0">>
MylibPin == <<"p", "i", "p", " ", "i", "n", "s", "t", "a", "l", "l", " ">>
            \o mylib \o EqEq \o <<"0", ".", "1", ".", "0">>
CommentLine == <<"#", " ", "T", "h", "i", "s", " ", "i", "s", " ", "a", " ",
                 "c", "o", "m", "m", "e", "n", "t">>

\* tests/test_spellmaker.py, mock_requirements_file: the triple-quoted text
FixtureManifest ==
    NL \o Indent \o CommentLine \o NL
       \o Indent \o NumpyPin \o NL
       \o Indent \o PandasPin \o NL
       \o Indent \o CommentLine \o NL
       \o Indent \o black \o NL
       \o Indent

\* The same five lines with no leading blank line and no indentation
PlainManifest ==
    CommentLine \o NL \o NumpyPin \o NL \o PandasPin \o NL
       \o CommentLine \o NL \o black \o NL

\* ... and with no "\n" after the last line
PlainManifestNoEol ==
    CommentLine \o NL \o NumpyPin \o NL \o PandasPin \o NL
       \o CommentLine \o NL \o black

\* The example of the docstring of get_libraries_from_requirements
DocManifest ==
    NumpyPin \o NL \o PandasPin \o NL \o MylibPin \o NL \o CommentLine \o NL

Manifests ==
    {NoFile, Unreadable, File(FixtureManifest), File(PlainManifest),
     File(PlainManifestNoEol), File(DocManifest)}

\* What an earlier run left at output_path
OldOutput == File(<<"o", "l", "d">> \o NL \o <<"t", "e", "r", "m">> \o NL)

(***************************************************************************)
(* Manifest Reader.                                                        *)
(***************************************************************************)
\* line.split("==")[0] if "==" in line else line.split(" ")[-1]
LibraryOf(line) ==
    IF Contains(line, EqEq)
    THEN Split(line, EqEq)[1]
    ELSE LET parts == Split(line, SP) IN parts[Len(parts)]

\* The for loop over the lines of the open file
RECURSIVE ReadLibraries(_)
ReadLibraries(lines) ==
    IF lines = <<>> THEN <<>>
    ELSE IF ~StartsWith(Head(lines), Hash)
         THEN <<LibraryOf(Head(lines))>> \o ReadLibraries(Tail(lines))
         ELSE ReadLibraries(Tail(lines))

ErrorNotFound == [msg |-> "Error: not found!"]

\* Mutant: the FileNotFoundError of open() is not caught.
get_libraries_uncaught(file) ==
    IF file \in {NoFile, Unreadable}
    THEN [libraries |-> <<>>, out |-> <<>>, raised |-> "open_manifest"]
    ELSE [libraries |-> ReadLibraries(FileLines(file.text)), out |-> <<>>,
          raised |-> "none"]

\* open() raises FileNotFoundError for a missing file, which is caught, and
\* another OSError for a file that cannot be read, which is not.
get_libraries_from_requirements(file) ==
    IF file = NoFile
    THEN [libraries |-> <<>>, out |-> <<ErrorNotFound>>, raised |-> "none"]
    ELSE IF file = Unreadable
    THEN [libraries |-> <<>>, out |-> <<>>, raised |-> "open_manifest"]
    ELSE [libraries |-> ReadLibraries(FileLines(file.text)), out |-> <<>>,
          raised |-> "none"]

(***************************************************************************)
(* Term Collector.                                                         *)
(***************************************************************************)
\* dir(library) of an installed module, sorted as dir sorts: a public name,
\* which may be a class, and a private name, which is not.
TopDir == <<<<"C">>, <<"_", "x">>>>

\* dir(getattr(library, item)) of a member that is a class: a name the module
\* has too, a private name and a name of its own
ClassDir == <<<<"C">>, <<"_", "p">>, <<"m">>>>

\* What getattr(library, item) does: it returns a value that is no type,
\* returns a class, or raises ("OtherError": an exception that is neither an
\* AttributeError nor an ImportError).
Resolutions == {"value", "class", "AttributeError", "ImportError", "OtherError"}

Failures == {"AttributeError", "ImportError", "OtherError"}

\* The installed modules of the model: at most one member fails to resolve.
Modules ==
    {[kind |-> "module", dir |-> TopDir, res |-> r] : r \in
        {r \in [ToSet(TopDir) -> Resolutions] :
            /\ r[<<"_", "x">>] # "class"
            /\ Cardinality({n \in ToSet(TopDir) : r[n] \in Failures}) <= 1}}

\* What __import__(library_name) does: it raises ImportError (the module is
\* absent), raises another exception ("OtherError": the module's own code
\* fails, or ValueError for the empty name), or returns a module.
ImportError == [kind |-> "ImportError"]
OtherError == [kind |-> "OtherError"]

LoadOutcomes(library_name) ==
    IF library_name = <<>> THEN {OtherError}
    ELSE {ImportError, OtherError} \union Modules

IsModule(load) == load.kind = "module"

\* The loop "for item in all_library_contents", from item i on: the exception
\* that ends it ("none" when it runs to its end) and new_contents
RECURSIVE ScanMembers(_, _, _)
ScanMembers(library, i, new_contents) ==
    IF i > Len(library.dir) THEN [exc |-> "none", new_contents |-> new_contents]
    ELSE LET r == library.res[library.dir[i]]
         IN  IF r = "class"
             THEN ScanMembers(library, i + 1, new_contents \o Public(ClassDir))
             ELSE IF r \in {"value", "AttributeError"}
             THEN ScanMembers(library, i + 1, new_contents)
             ELSE [exc |-> r, new_contents |-> new_contents]

Warning(library_name) == [msg |-> "Warning: Unable to import", name |-> library_name]

\* Every way process_library(library_name) can end when __import__ does
\* `load`: the terms returned, what was printed, and the call whose exception
\* left process_library ("none": it returned).
process_library(library_name, load) ==
    IF load = ImportError
    THEN {[terms |-> <<>>, out |-> <<Warning(library_name)>>, raised |-> "none"]}
    ELSE IF load = OtherError
    THEN {[terms |-> <<>>, out |-> <<>>, raised |-> "import"]}
    ELSE LET scan == ScanMembers(load, 1, <<>>)
         IN  IF scan.exc = "ImportError"
             THEN {[terms |-> <<library_name>>, out |-> <<Warning(library_name)>>,
                    raised |-> "none"]}
             ELSE IF scan.exc = "OtherError"
             THEN {[terms |-> <<>>, out |-> <<>>, raised |-> "getattr"]}
             ELSE {[terms |-> <<library_name>> \o Public(order), out |-> <<>>,
                    raised |-> "none"] :
                       order \in Orderings(ToSet(load.dir \o scan.new_contents))}

(***************************************************************************)
(* Dictionary Writer.                                                      *)
(***************************************************************************)
\* f.write(term + "\n") for each term, into the file open(.., "w") emptied
RECURSIVE WriteLines(_)
WriteLines(terms) ==
    IF terms = <<>> THEN <<>> ELSE Head(terms) \o NL \o WriteLines(Tail(terms))

Generated == [msg |-> "Dictionary generated at"]

\* open(output_path, "w") raises (the directory is missing, the path may not
\* be written) and leaves the path as it was, or it opens the file: the file
\* then holds the terms and nothing else.
write_to_file(terms, file, opens) ==
    IF ~opens
    THEN [file |-> file, out |-> <<>>, raised |-> "open_output"]
    ELSE [file |-> File(WriteLines(terms)), out |-> <<Generated>>, raised |-> "none"]

(***************************************************************************)
(* generate_spell_dict and create_spell_dict.                              *)
(***************************************************************************)
\* Mutant: the terms of a package are put in front of those collected so far.
ExtendInFront(terms_so_far, terms) == terms \o terms_so_far

\* all_terms.extend(terms)
Extend(terms_so_far, terms) == terms_so_far \o terms

\* Mutant: the loop stops one package early.
LoopDoneEarly == idx >= Len(libraries)

\* The for loop over libraries has no package left
LoopDone == idx > Len(libraries)

Loaded == Cardinality({i \in DOMAIN outcomes : IsModule(outcomes[i])})

Init ==
    /\ manifest \in Manifests
    /\ outFile \in {NoFile, OldOutput}
    /\ outFile0 = outFile
    /\ pc = "read"
    /\ libraries = <<>>
    /\ idx = 1
    /\ all_terms = <<>>
    /\ stdout = <<>>
    /\ raised = "none"
    /\ outcomes = <<>>
    /\ results = <<>>
    /\ written = <<>>

\* libraries = self.get_libraries_from_requirements()
GetLibrariesStep ==
    /\ pc = "read"
    /\ LET r == get_libraries_from_requirements(manifest)
       IN  /\ libraries' = r.libraries
           /\ stdout' = stdout \o r.out
           /\ raised' = r.raised
           /\ pc' = IF r.raised = "none" THEN "collect" ELSE "crashed"
    /\ UNCHANGED <<manifest, outFile, idx, all_terms, outFile0,
                   outcomes, results, written>>

\* One pass of the loop: terms = self.process_library(library_name), then
\* all_terms.extend(terms)
ProcessStep ==
    /\ pc = "collect"
    /\ ~LoopDone
    /\ \E load \in LoadOutcomes(libraries[idx]) :
          /\ IsModule(load) => Loaded < MaxLoaded
          /\ \E r \in process_library(libraries[idx], load) :
                /\ outcomes' = Append(outcomes, load)
                /\ results' = Append(results, r)
                /\ stdout' = stdout \o r.out
                /\ raised' = r.raised
                /\ IF r.raised = "none"
                   THEN /\ all_terms' = Extend(all_terms, r.terms)
                        /\ idx' = idx + 1
                        /\ pc' = "collect"
                   ELSE /\ UNCHANGED <<all_terms, idx>>
                        /\ pc' = "crashed"
    /\ UNCHANGED <<manifest, outFile, libraries, outFile0, written>>

\* generate_spell_dict returns all_terms and create_spell_dict calls
\* self.write_to_file(terms)
WriteStep ==
    /\ pc = "collect"
    /\ LoopDone
    /\ \E opens \in BOOLEAN :
          LET r == write_to_file(all_terms, outFile, opens)
          IN  /\ outFile' = r.file
              /\ stdout' = stdout \o r.out
              /\ raised' = r.raised
              /\ pc' = IF r.raised = "none" THEN "done" ELSE "crashed"
    /\ written' = Append(written, all_terms)
    /\ UNCHANGED <<manifest, libraries, idx, all_terms, outFile0,
                   outcomes, results>>

Next == GetLibrariesStep \/ ProcessStep \/ WriteStep

Spec == Init /\ [][Next]_vars

(***************************************************************************)
(* Properties.                                                             *)
(***************************************************************************)
ReaderReturned == pc # "read" /\ raised # "open_manifest"

\* process_library returned for the i-th package
Returned(i) == results[i].raised = "none"

Warnings == SelectSeq(stdout, LAMBDA m : m.msg = "Warning: Unable to import")

NoneLoaded == \A i \in DOMAIN outcomes : ~IsModule(outcomes[i])

RECURSIVE TermsOf(_)
TermsOf(rs) == IF rs = <<>> THEN <<>> ELSE Head(rs).terms \o TermsOf(Tail(rs))

\* C1: the Reader returns exactly the bare package names of the manifest's
\* lines that are neither comments nor blank, in file order: no name is empty
\* or holds a space or a newline, and the five-line manifest of the test,
\* indented or not, with or without a final newline, gives numpy, pandas, black.
C1_ReaderYieldsBareNames ==
    (ReaderReturned /\ manifest.state = "file") =>
        /\ \A i \in DOMAIN libraries :
              /\ libraries[i] # <<>>
              /\ \A k \in DOMAIN libraries[i] : libraries[i][k] \notin {" ", "\n"}
        /\ manifest \in {File(FixtureManifest), File(PlainManifest),
                         File(PlainManifestNoEol)}
              => libraries = <<numpy, pandas, black>>

\* C2: a line with leading command tokens and a version pin yields only the
\* package name: the manifest of the docstring gives numpy, pandas, mylib.
C2_CommandLineYieldsName ==
    (ReaderReturned /\ manifest = File(DocManifest)) =>
        libraries = <<numpy, pandas, mylib>>

C4_UnloadableIsSkipped ==
    \A i \in DOMAIN results :
        ~IsModule(outcomes[i]) =>
            results[i] = [terms |-> <<>>, out |-> <<Warning(libraries[i])>>,
                          raised |-> "none"]

\* C5: for every package that loads, what process_library returns is not
\* empty, starts with the package name, holds every top-level name of the
\* module that does not start with "_", and holds no name starting with "_"
\* after the first.
C5_LoadedPackageTerms ==
    \A i \in DOMAIN results :
        (IsModule(outcomes[i]) /\ Returned(i)) =>
            LET terms == results[i].terms
            IN  /\ terms # <<>>
                /\ terms[1] = libraries[i]
                /\ ToSet(Public(outcomes[i].dir)) \subseteq ToSet(Tail(terms))
                /\ \A k \in 2..Len(terms) : ~StartsWith(terms[k], Underscore)

\* C6: after write_to_file the lines of the destination file, read back, are
\* the terms written, in order, and nothing of an earlier content is left.
C6_WriteReadsBack ==
    pc = "done" => SplitLines(outFile.text) = written[1]

\* C7: when no package of the manifest loads, create_spell_dict ends normally,
\* the output file is empty and one warning per package is printed; for the
\* manifest of the test that is three warnings, for numpy, pandas and black.
C7_AllUnloadable ==
    (pc \in {"done", "crashed"} /\ ReaderReturned /\ NoneLoaded
        /\ raised # "open_output") =>
        /\ pc = "done"
        /\ outFile = File(<<>>)
        /\ Warnings = [i \in DOMAIN libraries |-> Warning(libraries[i])]
        /\ manifest = File(FixtureManifest) =>
              Warnings = <<Warning(numpy), Warning(pandas), Warning(black)>>

\* C8: what generate_spell_dict collects, and returns to create_spell_dict, is
\* the concatenation in manifest order of what process_library returned for
\* each package: the terms of an earlier package come before those of a later
\* one, and every package that loaded has its name among them.
C8_ConcatenationInOrder ==
    /\ pc = "collect" => /\ Len(results) = idx - 1
                         /\ all_terms = TermsOf(results)
    /\ written # <<>> =>
          /\ Len(results) = Len(libraries)
          /\ \A i \in DOMAIN results : Returned(i)
          /\ written[1] = TermsOf(results)
          /\ \A i \in DOMAIN results :
                IsModule(outcomes[i]) =>
                    written[1][Len(TermsOf(SubSeq(results, 1, i - 1))) + 1]
                        = libraries[i]

C8_Witness ==
    /\ pc = "done"
    /\ Loaded = 2
    /\ \E i, j \in DOMAIN results :
          /\ i < j
          /\ IsModule(outcomes[i]) /\ IsModule(outcomes[j])
          /\ libraries[i] # libraries[j]
          /\ Len(results[i].terms) > 1 /\ Len(results[j].terms) > 1

\* C9: the destination file keeps its old content until the Writer is called;
\* the Writer is called at most once, after the Reader and after the Collector
\* has returned for every package, and nothing runs after it; a run that
\* an exception ends before the Writer is called leaves the old content.
C9_WriterOnceAndLast ==
    /\ written = <<>> => outFile = outFile0
    /\ Len(written) <= 1
    /\ written # <<>> =>
          /\ pc \in {"done", "crashed"}
          /\ Len(results) = Len(libraries)
          /\ \A i \in DOMAIN results : Returned(i)
          /\ ~ENABLED Next
    /\ pc = "crashed" /\ raised # "open_output" =>
          written = <<>> /\ outFile = outFile0

C9_Witness ==
    /\ pc = "crashed"
    /\ raised \in {"import", "getattr"}
    /\ Len(results) >= 3
    /\ all_terms # <<>>
    /\ outFile0 = OldOutput
    /\ outFile = OldOutput

\* C10: when one top-level member of a loaded module fails to resolve,
\* whatever the error, process_library skips that member only and prints
\* nothing: it returns the package name, the module's public top-level names
\* and the public names of every member that is a class.
C10_MemberFailureIsSkipped ==
    \A i \in DOMAIN results :
        (IsModule(outcomes[i])
            /\ \E n \in ToSet(outcomes[i].dir) : outcomes[i].res[n] \in Failures) =>
            /\ Returned(i)
            /\ results[i].out = <<>>
            /\ results[i].terms # <<>>
            /\ results[i].terms[1] = libraries[i]
            /\ ToSet(Public(outcomes[i].dir)) \subseteq ToSet(Tail(results[i].terms))
            /\ (\E n \in ToSet(outcomes[i].dir) : outcomes[i].res[n] = "class")
                  => ToSet(Public(ClassDir)) \subseteq ToSet(Tail(results[i].terms))

====
